---- MODULE Spec2Model ----
(***************************************************************************)
(* Model of process_assets.py: the asset pipeline that converts every     *)
(* raster image of RAW_DIR to WebP, writes three width-scaled JPEG        *)
(* variants, extracts a palette and writes catalog.json.                  *)
(***************************************************************************)
EXTENDS Integers, Sequences, FiniteSets

(***************************************************************************)
(* Bounds of the model.                                                    *)
(***************************************************************************)

\* How many entries RAW_DIR holds at most.
MaxEntries == 3

\* How many times the script is run.
MaxRuns == 2

\* Image sizes of SpecImage: 1..MaxWidth by 1..MaxHeight, and some more.
MaxWidth == 24
MaxHeight == 24

(***************************************************************************)
(* Python float arithmetic (IEEE-754 binary64, round-half-to-even) on     *)
(* positive values.  A float is [bits, e]: bits is the significand, most  *)
(* significant bit first, and the value is BitsInt(bits) * 2^e.           *)
(***************************************************************************)

\* Width of a binary64 significand.
Mant == 53

RECURSIVE IntBits(_)
IntBits(n) == IF n = 0 THEN <<>> ELSE Append(IntBits(n \div 2), n % 2)

RECURSIVE Pow2(_)
Pow2(n) == IF n = 0 THEN 1 ELSE 2 * Pow2(n - 1)

\* The integer a bit string of at most 30 bits denotes (by halves, so that
\* the evaluation stays shallow).
RECURSIVE BitsInt(_)
BitsInt(bits) ==
    IF bits = <<>> THEN 0
    ELSE IF Len(bits) = 1 THEN bits[1]
    ELSE LET h == Len(bits) \div 2
         IN BitsInt(SubSeq(bits, 1, h)) * Pow2(Len(bits) - h)
            + BitsInt(SubSeq(bits, h + 1, Len(bits)))

\* bits + 1.
IncBits(bits) ==
    LET zeros == {i \in 1..Len(bits) : bits[i] = 0}
    IN IF zeros = {} THEN <<1>> \o [i \in 1..Len(bits) |-> 0]
       ELSE LET t == CHOOSE i \in zeros : \A j \in zeros : j <= i
            IN [i \in 1..Len(bits) |->
                   IF i < t THEN bits[i] ELSE IF i = t THEN 1 ELSE 0]

\* Round a significand of any length (plus a sticky flag for what lies
\* below it) to Mant bits, ties to even; sh is the exponent gained.
RoundBits(bits, sticky) ==
    IF Len(bits) <= Mant THEN [bits |-> bits, sh |-> 0]
    ELSE LET keep  == SubSeq(bits, 1, Mant)
             guard == bits[Mant + 1]
             st    == sticky \/ \E i \in (Mant + 2)..Len(bits) : bits[i] = 1
             up    == guard = 1 /\ (st \/ keep[Mant] = 1)
             m     == IF up THEN IncBits(keep) ELSE keep
         IN IF Len(m) > Mant
            THEN [bits |-> SubSeq(m, 1, Mant), sh |-> Len(bits) - Mant + 1]
            ELSE [bits |-> m, sh |-> Len(bits) - Mant]

\* 2^j mod d, by repeated squaring (d * d must fit a machine integer).
RECURSIVE Pow2Mod(_, _)
Pow2Mod(j, d) ==
    IF j = 0 THEN 1 % d
    ELSE LET h  == Pow2Mod(j \div 2, d)
             sq == (h * h) % d
         IN IF j % 2 = 1 THEN (2 * sq) % d ELSE sq

\* (n * 2^j) mod d: the remainder of the binary long division n/d after j
\* fractional bits.
DivRem(n, d, j) == ((n % d) * Pow2Mod(j, d)) % d

\* The j-th fractional bit (j >= 1) of the binary expansion of n/d.
FracBit(n, d, j) == (2 * DivRem(n, d, j - 1)) \div d

\* Binary long division n/d carried to Mant+1 significant bits: the bits,
\* the number k of fractional bits among them, and the remainder left.
LongDiv(n, d) ==
    LET ip   == IntBits(n \div d)
        lead == IF ip # <<>> THEN 0
                ELSE CHOOSE j \in 1..31 :
                        /\ n * Pow2(j) >= d
                        /\ n * Pow2(j - 1) < d
        k    == IF ip # <<>> THEN Mant + 1 - Len(ip) ELSE lead + Mant
        frac == [i \in 1..(Mant + 1 - Len(ip)) |->
                    FracBit(n, d, IF ip # <<>> THEN i ELSE lead + i - 1)]
    IN [bits |-> ip \o frac, r |-> DivRem(n, d, k), k |-> k]

\* n / float(d) for positive integers n, d with d * d below 2^31.
FloatDiv(n, d) ==
    LET q  == LongDiv(n, d)
        rd == RoundBits(q.bits, q.r # 0)
    IN [bits |-> rd.bits, e |-> rd.sh - q.k]

\* The n-bit representation of v < 2^n.
FixBits(v, n) == [i \in 1..n |-> (v \div Pow2(n - i)) % 2]

\* bits * h + carry for an integer h < 2^15, as [out, carry] with out as
\* long as bits; worked in limbs of at most 15 bits, least significant first.
RECURSIVE MulStep(_, _, _)
MulStep(bits, h, carry) ==
    IF Len(bits) <= 15
    THEN LET v == BitsInt(bits) * h + carry
         IN [out   |-> FixBits(v % Pow2(Len(bits)), Len(bits)),
             carry |-> v \div Pow2(Len(bits))]
    ELSE LET lo == MulStep(SubSeq(bits, Len(bits) - 14, Len(bits)), h, carry)
             hi == MulStep(SubSeq(bits, 1, Len(bits) - 15), h, lo.carry)
         IN [out |-> hi.out \o lo.out, carry |-> hi.carry]

MulBits(bits, h) ==
    LET p == MulStep(bits, h, 0) IN IntBits(p.carry) \o p.out

\* float(h) * x for a positive integer h < 2^15 and a float x.
FloatMul(h, x) ==
    LET rd == RoundBits(MulBits(x.bits, h), FALSE)
    IN [bits |-> rd.bits, e |-> x.e + rd.sh]

\* int(x): truncation toward zero.
FloatToInt(x) ==
    IF x.e >= 0 THEN BitsInt(x.bits) * Pow2(x.e)
    ELSE IF Len(x.bits) + x.e <= 0 THEN 0
         ELSE BitsInt(SubSeq(x.bits, 1, Len(x.bits) + x.e))

\* The height process_image gives the variant of target width `width`.
ScaledHeight(size, width) ==
    LET ratio == FloatDiv(width, size[1])
    IN FloatToInt(FloatMul(size[2], ratio))

(***************************************************************************)
(* Strings are sequences of one-character strings, so that lower(),        *)
(* endswith(), splitext() and the f-strings act on characters.             *)
(***************************************************************************)

UpperChars == <<"A", "B", "C", "D", "E", "F", "G", "H", "I", "J", "K", "L", "M", "N", "O", "P", "Q", "R", "S", "T", "U", "V", "W", "X", "Y", "Z">>
LowerChars == <<"a", "b", "c", "d", "e", "f", "g", "h", "i", "j", "k", "l", "m", "n", "o", "p", "q", "r", "s", "t", "u", "v", "w", "x", "y", "z">>
Digits     == <<"0", "1", "2", "3", "4", "5", "6", "7", "8", "9">>
HexDigits  == <<"0", "1", "2", "3", "4", "5", "6", "7", "8", "9", "a", "b", "c", "d", "e", "f">>

\* str.lower(), character by character.
Lower(s) ==
    [i \in 1..Len(s) |->
        IF \E k \in 1..Len(UpperChars) : UpperChars[k] = s[i]
        THEN LowerChars[CHOOSE k \in 1..Len(UpperChars) : UpperChars[k] = s[i]]
        ELSE s[i]]

\* str.endswith(suffix).
EndsWith(s, suffix) ==
    /\ Len(s) >= Len(suffix)
    /\ SubSeq(s, Len(s) - Len(suffix) + 1, Len(s)) = suffix

\* str(n) of a non-negative integer.
RECURSIVE Decimal(_)
Decimal(n) ==
    IF n < 10 THEN <<Digits[n + 1]>>
    ELSE Append(Decimal(n \div 10), Digits[(n % 10) + 1])

\* '#%02x%02x%02x' % rgb
HexColor(rgb) ==
    <<"#">> \o [i \in 1..6 |->
                  LET c == rgb[(i + 1) \div 2]
                  IN HexDigits[(IF i % 2 = 1 THEN c \div 16 ELSE c % 16) + 1]]

LastIndex(s, c) ==
    LET I == {i \in 1..Len(s) : s[i] = c}
    IN IF I = {} THEN 0 ELSE CHOOSE i \in I : \A j \in I : j <= i

\* os.path.splitext(p)[0]: cut at the last dot of the last component, unless
\* only dots precede it there.
SplitextRoot(p) ==
    LET sep == LastIndex(p, "/")
        dot == LastIndex(p, ".")
    IN IF dot > sep /\ \E i \in (sep + 1)..(dot - 1) : p[i] # "."
       THEN SubSeq(p, 1, dot - 1)
       ELSE p

\* os.path.join(a, b) for a relative b and an a that does not end in "/".
Join(a, b) == a \o <<"/">> \o b

(***************************************************************************)
(* Configuration.                                                          *)
(***************************************************************************)

RAW_DIR == <<".">>

\* Variant of OUTPUT_DIR: the variants are written beside the sources.
OUTPUT_DIR_InRawDir == RAW_DIR

OUTPUT_DIR == <<".", "/", "p", "r", "o", "c", "e", "s", "s", "e", "d", "_", "a", "s", "s", "e", "t", "s">>

RESPONSIVE_WIDTHS == <<480, 800, 1200>>

valid_extensions == <<<<".", "j", "p", "g">>, <<".", "j", "p", "e", "g">>, <<".", "p", "n", "g">>>>

WebpExt == <<".", "w", "e", "b", "p">>
JpgSuffix == <<"w", ".", "j", "p", "g">>
CatalogName == <<"c", "a", "t", "a", "l", "o", "g", ".", "j", "s", "o", "n">>

\* libjpeg refuses images with a side above JPEG_MAX_DIMENSION.
JpegMaxDimension == 65500

(***************************************************************************)
(* The file system: a function from paths to nodes.  A node is a          *)
(* directory, an image file (its size, its mode, the colours              *)
(* get_palette(color_count=6) finds in it: none, and an exception, when   *)
(* it has no opaque non-white pixel) or a file that is no image           *)
(* (zero-byte, corrupt, another format).  Image.open raises on anything   *)
(* but an image file; resize raises on a side below 1; the JPEG encoder   *)
(* raises on an alpha channel and on a side above JpegMaxDimension.       *)
(***************************************************************************)

DirNode == [kind |-> "dir"]
BytesNode == [kind |-> "file", type |-> "bytes"]
ImageNode(size, mode, colors) ==
    [kind |-> "file", type |-> "image", size |-> size, mode |-> mode,
     colors |-> colors]

NoImage == [size |-> <<0, 0>>, mode |-> "closed", colors |-> <<>>]

NoMetadata == [original |-> <<>>, variants |-> <<>>, palette |-> <<>>]

VARIABLES
    fs,           \* the file system
    pc,           \* where main() is
    run,          \* which run of the script this is
    files,        \* main: the kept filenames, in enumeration order
    idx,          \* main: position of the for loop in files
    catalog,      \* main: catalog["assets"]
    metadata,     \* process_image: the record being built
    img,          \* process_image: the image Image.open returned
    resized_img,  \* process_image: the last resized copy
    widx,         \* process_image: position of the loop in RESPONSIVE_WIDTHS
    fault,        \* the operation whose exception ended the run, or "none"
    calls,        \* the filenames passed to process_image in this run
    listed,       \* history: the files list of every run so far
    written       \* history: the assets of every catalog.json written so far

vars == <<fs, pc, run, files, idx, catalog, metadata, img, resized_img, widx,
          fault, calls, listed, written>>

IsImage(path) ==
    /\ path \in DOMAIN fs
    /\ fs[path].kind = "file"
    /\ fs[path].type = "image"

\* os.listdir(d): the names directly inside d.
ListDir(d) ==
    LET under == {p \in DOMAIN fs :
                     /\ Len(p) > Len(d) + 1
                     /\ SubSeq(p, 1, Len(d) + 1) = d \o <<"/">>
                     /\ \A i \in (Len(d) + 2)..Len(p) : p[i] # "/"}
    IN {SubSeq(p, Len(d) + 2, Len(p)) : p \in under}

\* f.lower().endswith(valid_extensions)
IsKept(f) ==
    \E k \in 1..Len(valid_extensions) : EndsWith(Lower(f), valid_extensions[k])

\* The orders in which os.listdir may return a set of names.
Orders(S) ==
    {o \in [1..Cardinality(S) -> S] :
        \A i, j \in 1..Cardinality(S) : i # j => o[i] # o[j]}

RECURSIVE Filter(_)
Filter(s) ==
    IF s = <<>> THEN <<>>
    ELSE IF IsKept(s[1]) THEN <<s[1]>> \o Filter(Tail(s))
         ELSE Filter(Tail(s))

Write(path, node) == [p \in DOMAIN fs \cup {path} |->
                         IF p = path THEN node ELSE fs[p]]

\* extract_palette(image_path, color_count=6): every exception is caught.
extract_palette(image_path) ==
    IF IsImage(image_path) /\ fs[image_path].colors # <<>>
    THEN [i \in 1..Len(fs[image_path].colors) |->
             HexColor(fs[image_path].colors[i])]
    ELSE <<>>

webp_path(filename) == Join(OUTPUT_DIR, SplitextRoot(filename) \o WebpExt)

variant_path(filename, width) ==
    Join(OUTPUT_DIR,
         SplitextRoot(filename) \o <<"_">> \o Decimal(width) \o JpgSuffix)

catalog_path == Join(OUTPUT_DIR, CatalogName)

\* Variant of Raise: a handler around process_image that skips the file.
RaiseSwallowed(op) ==
    /\ fault' = op
    /\ pc' = "loop"
    /\ idx' = idx + 1
    /\ img' = NoImage
    /\ UNCHANGED <<fs, run, files, catalog, metadata, resized_img, widx,
                   calls, listed, written>>

\* An exception nothing catches: it leaves process_image and main, and the
\* interpreter exits.
Raise(op) ==
    /\ fault' = op
    /\ pc' = "crashed"
    /\ UNCHANGED <<fs, run, files, idx, catalog, metadata, img, resized_img,
                   widx, calls, listed, written>>

\* Variant of MakeOutputDir: os.makedirs without the os.path.exists test.
MakeOutputDirAlways ==
    /\ pc = "start"
    /\ IF OUTPUT_DIR \in DOMAIN fs \/ OUTPUT_DIR = RAW_DIR
       THEN Raise("makedirs")
       ELSE /\ fs' = Write(OUTPUT_DIR, DirNode)
            /\ pc' = "list"
            /\ UNCHANGED <<run, files, idx, catalog, metadata, img,
                           resized_img, widx, fault, calls, listed, written>>

\* main, lines 89-90.
MakeOutputDir ==
    /\ pc = "start"
    /\ fs' = IF OUTPUT_DIR \in DOMAIN fs \/ OUTPUT_DIR = RAW_DIR
             THEN fs
             ELSE Write(OUTPUT_DIR, DirNode)
    /\ pc' = "list"
    /\ UNCHANGED <<run, files, idx, catalog, metadata, img, resized_img, widx,
                   fault, calls, listed, written>>

\* main, lines 92-97.
ListFiles ==
    /\ pc = "list"
    /\ \E o \in Orders(ListDir(RAW_DIR)) :
          /\ files' = Filter(o)
          /\ listed' = Append(listed, Filter(o))
    /\ catalog' = <<>>
    /\ idx' = 1
    /\ pc' = "loop"
    /\ UNCHANGED <<fs, run, metadata, img, resized_img, widx, fault, calls,
                   written>>

\* process_image, lines 57-64, entered from main's line 101.
CallProcessImage ==
    /\ pc = "loop"
    /\ idx <= Len(files)
    /\ calls' = Append(calls, files[idx])
    /\ metadata' = [original |-> files[idx],
                    variants |-> <<>>,
                    palette  |-> extract_palette(Join(RAW_DIR, files[idx]))]
    /\ pc' = "open"
    /\ UNCHANGED <<fs, run, files, idx, catalog, img, resized_img, widx,
                   fault, listed, written>>

\* process_image, line 66.
OpenImage ==
    /\ pc = "open"
    /\ LET file_path == Join(RAW_DIR, files[idx])
       IN IF IsImage(file_path)
          THEN /\ img' = [size   |-> fs[file_path].size,
                          mode   |-> fs[file_path].mode,
                          colors |-> fs[file_path].colors]
               /\ pc' = "webp"
               /\ UNCHANGED <<fs, run, files, idx, catalog, metadata,
                              resized_img, widx, fault, calls, listed, written>>
          ELSE Raise("open")

\* process_image, lines 68-70.
SaveWebp ==
    /\ pc = "webp"
    /\ fs' = Write(webp_path(files[idx]),
                   [kind |-> "file", type |-> "image", size |-> img.size,
                    mode |-> img.mode, colors |-> img.colors,
                    format |-> "WEBP", from |-> files[idx]])
    /\ metadata' = [metadata EXCEPT !.variants =
                       Append(@, [format |-> "webp",
                                  path   |-> webp_path(files[idx])])]
    /\ widx' = 1
    /\ resized_img' = NoImage
    /\ pc' = "resize"
    /\ UNCHANGED <<run, files, idx, catalog, img, fault, calls, listed,
                   written>>

\* Variant of ResizeSource: each copy is made from the copy before it.
ResizeSourcePrevious == IF resized_img = NoImage THEN img ELSE resized_img

\* The image whose size[0], size[1] and pixels the loop body reads.
ResizeSource == img

\* process_image, lines 73-80: one iteration of the loop.
ResizeVariant ==
    /\ pc = "resize"
    /\ widx <= Len(RESPONSIVE_WIDTHS)
    /\ LET width  == RESPONSIVE_WIDTHS[widx]
           height == ScaledHeight(ResizeSource.size, width)
           path   == variant_path(files[idx], width)
       IN IF height < 1
          THEN Raise("resize")
          ELSE IF ResizeSource.mode = "RGBA" \/ height > JpegMaxDimension
          THEN Raise("save")
          ELSE /\ resized_img' = [size   |-> <<width, height>>,
                                  mode   |-> ResizeSource.mode,
                                  colors |-> ResizeSource.colors]
               /\ fs' = Write(path,
                              [kind |-> "file", type |-> "image",
                               size |-> <<width, height>>,
                               mode |-> ResizeSource.mode,
                               colors |-> ResizeSource.colors,
                               format |-> "JPEG", from |-> files[idx]])
               /\ metadata' = [metadata EXCEPT !.variants =
                                  Append(@, [width |-> width, path |-> path])]
               /\ widx' = widx + 1
               /\ UNCHANGED <<pc, run, files, idx, catalog, img, fault, calls,
                              listed, written>>

\* Variant of AppendAsset: insert(0, asset_metadata).
AppendAssetFirst(assets, asset_metadata) == <<asset_metadata>> \o assets

\* main, line 102.
AppendAsset(assets, asset_metadata) == Append(assets, asset_metadata)

\* process_image, line 82, and main, line 102.
ReturnMetadata ==
    /\ pc = "resize"
    /\ widx > Len(RESPONSIVE_WIDTHS)
    /\ catalog' = AppendAsset(catalog, metadata)
    /\ idx' = idx + 1
    /\ img' = NoImage
    /\ pc' = "loop"
    /\ UNCHANGED <<fs, run, files, metadata, resized_img, widx, fault, calls,
                   listed, written>>

\* main, lines 105-109.
SaveCatalog ==
    /\ pc = "loop"
    /\ idx > Len(files)
    /\ fs' = Write(catalog_path,
                   [kind |-> "file", type |-> "json",
                    doc  |-> [assets |-> catalog]])
    /\ written' = Append(written, catalog)
    /\ pc' = "done"
    /\ UNCHANGED <<run, files, idx, catalog, metadata, img, resized_img, widx,
                   fault, calls, listed>>

\* The script is started again after a run that completed.
RunAgain ==
    /\ pc = "done"
    /\ run < MaxRuns
    /\ run' = run + 1
    /\ pc' = "start"
    /\ files' = <<>>
    /\ idx' = 1
    /\ catalog' = <<>>
    /\ metadata' = NoMetadata
    /\ img' = NoImage
    /\ resized_img' = NoImage
    /\ widx' = 1
    /\ fault' = "none"
    /\ calls' = <<>>
    /\ UNCHANGED <<fs, listed, written>>

Next ==
    \/ MakeOutputDir
    \/ ListFiles
    \/ CallProcessImage
    \/ OpenImage
    \/ SaveWebp
    \/ ResizeVariant
    \/ ReturnMetadata
    \/ SaveCatalog
    \/ RunAgain

(***************************************************************************)
(* Inputs: the entries RAW_DIR may hold.                                   *)
(***************************************************************************)

ImageWidths == (1..MaxWidth) \cup {481, 1000, 1600}
ImageHeights == (1..MaxHeight) \cup {60, 800}

Candidates ==
    { [name |-> <<"l", "o", "g", "o", ".", "p", "n", "g">>,
       node |-> ImageNode(<<1600, 800>>, "RGB",
                          <<<<18, 52, 86>>, <<250, 128, 0>>>>)],
      [name |-> <<"l", "o", "g", "o", ".", "j", "p", "g">>,
       node |-> ImageNode(<<7, 21>>, "RGB", <<<<171, 205, 239>>>>)],
      \* an all-white image: it decodes, the quantizer finds no pixel
      [name |-> <<"A", ".", "J", "P", "E", "G">>,
       node |-> ImageNode(<<11, 11>>, "RGB", <<>>)],
      \* a zero-byte file
      [name |-> <<"b", "a", "d", ".", "p", "n", "g">>, node |-> BytesNode],
      [name |-> <<"r", "g", "b", "a", ".", "P", "N", "G">>,
       node |-> ImageNode(<<100, 50>>, "RGBA", <<<<1, 2, 3>>>>)],
      [name |-> <<"t", "h", "i", "n", ".", "j", "p", "e", "g">>,
       node |-> ImageNode(<<1000, 1>>, "RGB", <<<<9, 9, 9>>>>)],
      \* a directory whose name ends like an image's
      [name |-> <<"i", "c", "o", "n", "s", ".", "p", "n", "g">>, node |-> DirNode],
      [name |-> <<"b", ".", "s", "v", "g">>, node |-> BytesNode],
      \* an image whose name ends in "png" without the dot
      [name |-> <<"x", "p", "n", "g">>,
       node |-> ImageNode(<<10, 10>>, "RGB", <<<<4, 5, 6>>>>)] }

InitProgram ==
    /\ pc = "start"
    /\ run = 1
    /\ files = <<>>
    /\ idx = 1
    /\ catalog = <<>>
    /\ metadata = NoMetadata
    /\ img = NoImage
    /\ resized_img = NoImage
    /\ widx = 1
    /\ fault = "none"
    /\ calls = <<>>
    /\ listed = <<>>
    /\ written = <<>>

\* The file system a set of entries of RAW_DIR makes, with or without the
\* output directory of an earlier use.
FileSystem(entries, withOutput) ==
    LET paths == {Join(RAW_DIR, e.name) : e \in entries}
                 \cup (IF withOutput THEN {OUTPUT_DIR} ELSE {})
    IN [p \in paths |->
           IF \E e \in entries : Join(RAW_DIR, e.name) = p
           THEN (CHOOSE e \in entries : Join(RAW_DIR, e.name) = p).node
           ELSE DirNode]

Init ==
    /\ InitProgram
    /\ \E entries \in SUBSET Candidates, withOutput \in BOOLEAN :
          /\ Cardinality(entries) <= MaxEntries
          /\ fs = FileSystem(entries, withOutput)

Spec == Init /\ [][Next]_vars

\* One image of any size within the bounds, alone in RAW_DIR.
InitImage ==
    /\ InitProgram
    /\ \E W \in ImageWidths, H \in ImageHeights, mode \in {"RGB", "RGBA"},
          decodable \in BOOLEAN, withOutput \in BOOLEAN :
          fs = FileSystem(
                  {[name |-> <<"l", "o", "g", "o", ".", "p", "n", "g">>,
                    node |-> IF decodable
                             THEN ImageNode(<<W, H>>, mode, <<<<18, 52, 86>>>>)
                             ELSE BytesNode]},
                  withOutput)

SpecImage == InitImage /\ [][Next]_vars
(***************************************************************************)
(* Properties.                                                             *)
(***************************************************************************)

Elements(s) == {s[i] : i \in 1..Len(s)}

\* The source image a filename of RAW_DIR names.
RawNode(f) == fs[Join(RAW_DIR, f)]

\* The variants list the manifest format describes: the webp entry, then one
\* entry per configured width, in order.
HasVariantShape(v) ==
    /\ Len(v) = 1 + Len(RESPONSIVE_WIDTHS)
    /\ DOMAIN v[1] = {"format", "path"}
    /\ v[1].format = "webp"
    /\ \A k \in 1..Len(RESPONSIVE_WIDTHS) :
          /\ DOMAIN v[k + 1] = {"width", "path"}
          /\ v[k + 1].width = RESPONSIVE_WIDTHS[k]

\* The scaled variants on disk, as <<source filename, width, path>>.
ScaledVariants ==
    {t \in {<<f, RESPONSIVE_WIDTHS[k], variant_path(f, RESPONSIVE_WIDTHS[k])>> :
               f \in Elements(calls), k \in 1..Len(RESPONSIVE_WIDTHS)} :
        /\ t[3] \in DOMAIN fs
        /\ fs[t[3]].from = t[1]
        /\ IsImage(Join(RAW_DIR, t[1]))}

\* C1: for any valid input image (any width and height >= 1), process_image
\* returns, and the record it returns has 1 + len(RESPONSIVE_WIDTHS) variants:
\* the webp entry first, then one entry per width 480, 800, 1200.  Stated for
\* images a JPEG can hold (mode RGB).
C1_EveryImageYieldsFourVariants ==
    /\ \A i \in 1..Len(catalog) : HasVariantShape(catalog[i].variants)
    /\ ~ /\ pc = "crashed"
         /\ IsImage(Join(RAW_DIR, files[idx]))
         /\ RawNode(files[idx]).mode = "RGB"
         /\ RawNode(files[idx]).size[1] >= 1
         /\ RawNode(files[idx]).size[2] >= 1

\* C2: the scaled variant of target width w of an image of size (W, H) has
\* width w and height H*w/W rounded to the nearest integer (either neighbour
\* on a tie).
C2_HeightIsRounded ==
    \A t \in ScaledVariants :
        LET W == RawNode(t[1]).size[1]
            H == RawNode(t[1]).size[2]
            d == fs[t[3]].size[2] * W - H * t[2]
        IN /\ fs[t[3]].size[1] = t[2]
           /\ 2 * d <= W
           /\ 2 * d >= -W

\* C3: a kept file whose palette extraction fails (a corrupt or zero-byte
\* file, say) gets palette == [] and the run does not stop on it: no run ends
\* at the decoding of a regular file whose palette came out empty.
C3_PaletteFailureDoesNotStopRun ==
    ~ /\ pc = "crashed"
      /\ fault = "open"
      /\ RawNode(files[idx]).kind = "file"
      /\ metadata.original = files[idx]
      /\ metadata.palette = <<>>

\* C4: a decode, resize or encode fault during variant generation ends the
\* run there: no later file is passed to process_image and this run writes
\* no catalog.json (what is on disk is an earlier run's), also when earlier
\* files were processed.
C4_VariantFaultEndsRun ==
    fault \in {"open", "resize", "save"} =>
        /\ pc = "crashed"
        /\ calls = SubSeq(files, 1, idx)
        /\ Len(catalog) = idx - 1
        /\ Len(written) = run - 1
        /\ catalog_path \in DOMAIN fs =>
              /\ run > 1
              /\ fs[catalog_path].doc.assets = written[run - 1]

C4_Witness ==
    /\ pc = "crashed"
    /\ fault \in {"open", "resize", "save"}
    /\ Len(catalog) >= 1
    /\ idx < Len(files)

\* C5: main passes to process_image exactly the regular files directly in
\* RAW_DIR whose lowercased name ends in .jpg, .jpeg or .png; no directory
\* and no other file is passed.
C5_OnlyImageFilesProcessed ==
    /\ \A i \in 1..Len(calls) :
          /\ Join(RAW_DIR, calls[i]) \in DOMAIN fs
          /\ RawNode(calls[i]).kind = "file"
          /\ IsKept(calls[i])
    /\ pc = "done" =>
          Elements(calls) = {n \in ListDir(RAW_DIR) :
                                RawNode(n).kind = "file" /\ IsKept(n)}

\* C6: when a run completes, the assets written to catalog.json are one
\* record per kept file, in enumeration order; the catalog is written once
\* per run, after every kept file was processed and appended.
C6_CatalogOnePerFileInOrder ==
    /\ Len(written) = IF pc = "done" THEN run ELSE run - 1
    /\ pc \in {"loop", "open", "webp", "resize"} =>
          /\ Len(catalog) = idx - 1
          /\ \A i \in 1..Len(catalog) : catalog[i].original = files[i]
    /\ pc = "done" =>
          /\ idx = Len(files) + 1
          /\ Len(written[run]) = Len(files)
          /\ \A i \in 1..Len(files) : written[run][i].original = files[i]
          /\ fs[catalog_path].doc = [assets |-> written[run]]

C6_Witness ==
    /\ pc = "done"
    /\ Len(files) >= 2
    /\ Len(written[run]) = Len(files)

\* No entry of RAW_DIR passes the extension filter.
NoEligibleFiles == \A n \in ListDir(RAW_DIR) : ~ IsKept(n)

\* C7: a run over an input directory with no eligible file is no error: it
\* never fails and never enters process_image, the output directory exists
\* from the first step on, and the run ends with catalog.json holding
\* {"assets": []}.
C7_NoEligibleFilesIsNoError ==
    NoEligibleFiles =>
        /\ fault = "none"
        /\ pc \in {"start", "list", "loop", "done"}
        /\ pc # "start" =>
              /\ OUTPUT_DIR \in DOMAIN fs
              /\ fs[OUTPUT_DIR] = DirNode
        /\ pc = "done" => fs[catalog_path].doc = [assets |-> <<>>]

C7_Witness ==
    /\ NoEligibleFiles
    /\ ListDir(RAW_DIR) # {}
    /\ pc = "done"
    /\ run = 1

\* C8: a second run over the same inputs keeps the same files as the first
\* (nothing the first run wrote is picked up as an input), and its catalog
\* has as many assets and the same records (original, variants with their
\* widths, formats and paths, palette) as the first run's.
C8_SecondRunSameStructure ==
    /\ \A r \in 2..Len(listed) :
          /\ Len(listed[r]) = Len(listed[1])
          /\ Elements(listed[r]) = Elements(listed[1])
    /\ \A r \in 2..Len(written) :
          /\ Len(written[r]) = Len(written[1])
          /\ Elements(written[r]) = Elements(written[1])

C8_Witness ==
    /\ Len(written) = 2
    /\ Len(written[1]) >= 2
    /\ written[2] # written[1]

\* C9: every scaled variant is computed from the original decoded image: in
\* the width loop img keeps the size of the source file, and the size of each
\* variant written is a function of the original (W, H) and the width w alone.
C9_VariantsFromOriginal ==
    /\ pc \in {"webp", "resize"} => img.size = RawNode(files[idx]).size
    /\ \A t \in ScaledVariants :
          fs[t[3]].size = <<t[2], ScaledHeight(RawNode(t[1]).size, t[2])>>

C9_Witness ==
    /\ pc = "resize"
    /\ widx > Len(RESPONSIVE_WIDTHS)
    /\ img.size = <<7, 3>>
    /\ Cardinality(ScaledVariants) = Len(RESPONSIVE_WIDTHS)

\* The output paths a catalog record names.
PathsOf(asset) == {asset.variants[k].path : k \in 1..Len(asset.variants)}

\* C10: two distinct kept source files are written to disjoint output paths,
\* so that when the run completes every variant on disk is the one generated
\* from the source file whose record names it.
C10_DistinctSourcesDisjointPaths ==
    /\ \A i, j \in 1..Len(catalog) :
          i # j => PathsOf(catalog[i]) \cap PathsOf(catalog[j]) = {}
    /\ pc = "done" =>
          \A i \in 1..Len(catalog) :
             \A p \in PathsOf(catalog[i]) : fs[p].from = catalog[i].original
====
